---- MODULE Spec2Model ----
(***************************************************************************)
(* Model of packages/core/src/lib/server/createExpressServer.ts:           *)
(* the assembly of the express application (createExpressServer), the      *)
(* options the Apollo server is constructed with (serverConfig), the error *)
(* formatter (formatError) and the way express walks the registered        *)
(* middleware stack for a request.                                         *)
(***************************************************************************)
EXTENDS Integers, Sequences, FiniteSets, TLC

VARIABLES
    config,         \* the `config` argument of createExpressServer
    NODE_ENV,       \* process.env.NODE_ENV
    pc,             \* where createExpressServer is: "init", "awaitExtend",
                    \* "awaitStart", "returned", "rejected"
    expressServer,  \* the application's middleware stack, in registration order
    apolloServer,   \* the ApolloServer instance: state, options, start() calls
    log,            \* the assembly steps executed so far, in order
    req             \* the request being handled (or the last one handled)

vars == <<config, NODE_ENV, pc, expressServer, apolloServer, log, req>>

-----------------------------------------------------------------------------
(* JavaScript values.  Every value carries its typeof; an object is a       *)
(* function from its own keys to values, an array a sequence.               *)

Undefined == [type |-> "undefined"]
Bool(b)   == [type |-> "boolean", bool |-> b]
Num(n)    == [type |-> "number", num |-> n]
Str(s)    == [type |-> "string", str |-> s]
Obj(o)    == [type |-> "object", obj |-> o]
Arr(a)    == [type |-> "array", arr |-> a]
Fn(f)     == [type |-> "function", fn |-> f]
\* a URL path, kept as its sequence of segments: '/api/graphql' is <<"api","graphql">>
Path(p)   == [type |-> "string", segments |-> p]

\* v?.k : the property k of v, undefined when v is no object or has no such key
Get(v, k) == IF v.type = "object" /\ k \in DOMAIN v.obj THEN v.obj[k] ELSE Undefined

\* the truthiness of v, as `if (v)` and `!v` test it
Truthy(v) ==
    CASE v.type = "undefined" -> FALSE
      [] v.type = "boolean"   -> v.bool
      [] v.type = "number"    -> v.num # 0
      [] OTHER                -> TRUE

\* v ?? d
Nullish(v, d) == IF v.type = "undefined" THEN d ELSE v

\* { ...a, ...b } : the keys of both, b's value where both have the key
Spread(a, b) ==
    [k \in DOMAIN a \cup DOMAIN b |-> IF k \in DOMAIN b THEN b[k] ELSE a[k]]

\* the own keys of `...v` : none when v is undefined
SpreadOf(v) == IF v.type = "object" THEN v.obj ELSE <<>>

\* delete o.k
Delete(o, k) == [j \in DOMAIN o \ {k} |-> o[j]]

IsProduction == NODE_ENV = "production"

-----------------------------------------------------------------------------
(* Constants of the program.                                                *)

DEFAULT_MAX_FILE_SIZE == 200 * 1024 * 1024

\* imported from '../defaults'
healthCheckPath == Path(<<"_healthcheck">>)

DefaultGraphqlPath == Path(<<"api", "graphql">>)

\* cors(true): the backwards compatible defaults
DefaultCorsConfig == [origin |-> Bool(TRUE), credentials |-> Bool(TRUE)]

Root == <<>>

-----------------------------------------------------------------------------
(* The application under assembly: its middleware stack, the Apollo        *)
(* server and the log of the steps taken.                                  *)

NoApollo == [state |-> "none", options |-> <<>>, starts |-> 0]

NewApp == [stack |-> <<>>, apollo |-> NoApollo, log |-> <<>>]

\* expressServer.use(path, handler): the layer goes to the end of the stack
Use(a, layer) ==
    [a EXCEPT !.stack = Append(@, layer), !.log = Append(@, layer.mw)]

Server(cfg)  == Get(cfg, "server")
Graphql(cfg) == Get(cfg, "graphql")


\* a CORS layer registered whenever server.cors is set, `false` included
UseCors_WhenDefined(cfg, a) ==
    LET c == Get(Server(cfg), "cors") IN
    IF c.type # "undefined"
    THEN LET corsConfig == IF c.type = "boolean" THEN DefaultCorsConfig ELSE c.obj
         IN  Use(a, [mw |-> "cors", path |-> Root, corsConfig |-> corsConfig])
    ELSE a

\* if (config.server?.cors) expressServer.use(cors(corsConfig))
UseCors(cfg, a) ==
    LET c == Get(Server(cfg), "cors") IN
    IF Truthy(c)
    THEN LET corsConfig == IF c.type = "boolean" THEN DefaultCorsConfig ELSE c.obj
         IN  Use(a, [mw |-> "cors", path |-> Root, corsConfig |-> corsConfig])
    ELSE a

\* if (config.server?.healthCheck) expressServer.use(path, handler)
UseHealthCheck(cfg, a) ==
    LET h == Get(Server(cfg), "healthCheck") IN
    IF Truthy(h)
    THEN LET healthCheck == IF h.type = "boolean" THEN Obj(<<>>) ELSE h
             path == Nullish(Get(healthCheck, "path"), healthCheckPath)
         IN  Use(a, [mw |-> "healthCheck", path |-> path.segments,
                     healthCheck |-> healthCheck])
    ELSE a

\* config.server.extendExpressApp(expressServer, context): the call itself;
\* a hook Fn("use") registers a middleware of its own on the application
CallExtendExpressApp(cfg, a) ==
    LET hook   == Get(Server(cfg), "extendExpressApp")
        called == [a EXCEPT !.log = Append(@, "extendExpressApp")]
    IN  IF hook.fn = "use"
        THEN [called EXCEPT !.stack = Append(@, [mw |-> "extension", path |-> Root])]
        ELSE called

\* if (config.server?.extendHttpServer) config.server.extendHttpServer(...)
CallExtendHttpServer(cfg, a) ==
    IF Truthy(Get(Server(cfg), "extendHttpServer"))
    THEN [a EXCEPT !.log = Append(@, "extendHttpServer")]
    ELSE a

\* a loop body that skips an entry only for its missing serverRoute
UseStaticOf_AnyKind(val, a) ==
    IF ~Truthy(Get(val, "serverRoute"))
    THEN a
    ELSE Use(a, [mw |-> "static",
                 path |-> Get(Get(val, "serverRoute"), "path").segments,
                 storagePath |-> Get(val, "storagePath"),
                 type |-> Get(val, "type"),
                 index |-> FALSE, redirect |-> FALSE, lastModified |-> FALSE])

\* one storage entry of the loop over Object.values(config.storage)
UseStaticOf(val, a) ==
    IF Get(val, "kind") # Str("local") \/ ~Truthy(Get(val, "serverRoute"))
    THEN a
    ELSE Use(a, [mw |-> "static",
                 path |-> Get(Get(val, "serverRoute"), "path").segments,
                 storagePath |-> Get(val, "storagePath"),
                 type |-> Get(val, "type"),
                 index |-> FALSE, redirect |-> FALSE, lastModified |-> FALSE])

RECURSIVE UseStaticAll(_, _)
UseStaticAll(vals, a) ==
    IF vals = <<>> THEN a ELSE UseStaticAll(Tail(vals), UseStaticOf(Head(vals), a))

\* if (config.storage) for (const val of Object.values(config.storage)) ...
UseStatic(cfg, a) ==
    LET storage == Get(cfg, "storage") IN
    IF Truthy(storage) THEN UseStaticAll(storage.arr, a) ELSE a

-----------------------------------------------------------------------------
(* The error formatter and the options of the Apollo server.               *)

\* a call of a function the configuration supplies, by what that function does
Call(f, arg) ==
    CASE f.fn = "identity" -> arg
      [] f.fn = "mask"     -> Obj([message |-> Str("Internal server error")])
      [] f.fn = "producer" -> Obj([status |-> Str("custom")])
      [] OTHER             -> Undefined

\* a redaction that drops the extensions altogether
Redact_DropsExtensions(graphqlConfig, formattedError) ==
    LET configured == Get(graphqlConfig, "debug")
        debug      == IF configured.type = "undefined"
                      THEN Bool(~IsProduction) ELSE configured
    IN  IF ~Truthy(debug) /\ Truthy(Get(formattedError, "extensions"))
        THEN Obj(Delete(formattedError.obj, "extensions"))
        ELSE formattedError

\* formatError, lines 27-36: resolve debug, strip the debug extensions
Redact(graphqlConfig, formattedError) ==
    LET configured == Get(graphqlConfig, "debug")
        debug      == IF configured.type = "undefined"
                      THEN Bool(~IsProduction) ELSE configured
        extensions == Get(formattedError, "extensions")
    IN  IF ~Truthy(debug) /\ Truthy(extensions)
        THEN Obj([formattedError.obj EXCEPT
                    !["extensions"] = Obj(Delete(Delete(extensions.obj, "debug"),
                                                 "exception"))])
        ELSE formattedError

\* the custom formatter of graphqlConfig.apolloConfig, undefined when none is given
CustomFormatError(graphqlConfig) ==
    Get(Get(graphqlConfig, "apolloConfig"), "formatError")

\* the function formatError(graphqlConfig) returns, applied to formattedError
formatError(graphqlConfig, formattedError) ==
    LET redacted == Redact(graphqlConfig, formattedError) IN
    IF Truthy(CustomFormatError(graphqlConfig))
    THEN Call(CustomFormatError(graphqlConfig), redacted)
    ELSE redacted

\* the value of formatError(config.graphql): a function closed over graphqlConfig
FormatErrorOf(graphqlConfig) ==
    [type |-> "function", fn |-> "formatError", graphqlConfig |-> graphqlConfig]

graphQLSchema == Str("graphQLSchema")

LandingPageLocalDefault == "ApolloServerPluginLandingPageLocalDefault"
LandingPageDisabled     == "ApolloServerPluginLandingPageDisabled"

\* a playground option that falls back on the environment for false as well
PlaygroundOption_Or(cfg) ==
    LET playground == Get(Graphql(cfg), "playground") IN
    IF Truthy(playground) THEN playground ELSE Bool(~IsProduction)

\* config.graphql?.playground ?? process.env.NODE_ENV !== 'production'
PlaygroundOption(cfg) ==
    Nullish(Get(Graphql(cfg), "playground"), Bool(~IsProduction))

\* the plugins entry of serverConfig
Plugins(cfg) ==
    LET apolloConfig     == Get(Graphql(cfg), "apolloConfig")
        playgroundOption == PlaygroundOption(cfg)
    IN  IF playgroundOption = Str("apollo")
        THEN Get(apolloConfig, "plugins")
        ELSE Arr(<< IF Truthy(playgroundOption)
                    THEN LandingPageLocalDefault ELSE LandingPageDisabled >>
                 \o Nullish(Get(apolloConfig, "plugins"), Arr(<<>>)).arr)

\* the keys written before ...apolloConfig
BuiltInBefore(cfg) ==
    [formatError |-> FormatErrorOf(Graphql(cfg)),
     includeStacktraceInErrorResponses |-> Get(Graphql(cfg), "debug")]

\* the keys written after ...apolloConfig
BuiltInAfter(cfg) ==
    [schema |-> graphQLSchema, plugins |-> Plugins(cfg)]

\* const serverConfig = { formatError, includeStacktraceInErrorResponses,
\*                        ...apolloConfig, schema, plugins }
ServerConfig(cfg) ==
    Spread(Spread(BuiltInBefore(cfg), SpreadOf(Get(Graphql(cfg), "apolloConfig"))),
           BuiltInAfter(cfg))

\* the formatError the Apollo server was given, applied to an error it reports:
\* Apollo calls options.formatError when there is one and sends what it returns
EngineFormatError(options, formattedError) ==
    LET f == Get(Obj(options), "formatError") IN
    IF f.type # "function" THEN formattedError
    ELSE IF f.fn = "formatError" THEN formatError(f.graphqlConfig, formattedError)
    ELSE Call(f, formattedError)

\* the argument the custom formatter is called with while the Apollo server
\* formats formattedError; undefined when no custom formatter is called
CustomFormatErrorInput(options, formattedError) ==
    LET f == Get(Obj(options), "formatError") IN
    IF f.type # "function" THEN Undefined
    ELSE IF f.fn = "formatError"
         THEN IF Truthy(CustomFormatError(f.graphqlConfig))
              THEN Redact(f.graphqlConfig, formattedError) ELSE Undefined
    ELSE formattedError

\* const apolloServer = new ApolloServer({ ...serverConfig })
NewApolloServer(cfg, a) ==
    [a EXCEPT !.apollo = [state |-> "constructed", options |-> ServerConfig(cfg),
                          starts |-> 0],
              !.log = Append(@, "new ApolloServer")]


\* the upload middleware mounted on the API path instead of the application
UseGraphqlUpload_OnApiPath(cfg, a) ==
    LET maxFileSize == Nullish(Get(Server(cfg), "maxFileSize"),
                               Num(DEFAULT_MAX_FILE_SIZE))
    IN  Use(a, [mw |-> "graphqlUpload",
                path |-> Nullish(Get(Graphql(cfg), "path"), DefaultGraphqlPath).segments,
                maxFileSize |-> maxFileSize.num])

\* a ceiling that falls back on the default for every falsy maxFileSize
UseGraphqlUpload_OrDefault(cfg, a) ==
    LET configured  == Get(Server(cfg), "maxFileSize")
        maxFileSize == IF Truthy(configured) THEN configured
                       ELSE Num(DEFAULT_MAX_FILE_SIZE)
    IN  Use(a, [mw |-> "graphqlUpload", path |-> Root, maxFileSize |-> maxFileSize.num])

\* expressServer.use(graphqlUploadExpress({ maxFileSize }))
UseGraphqlUpload(cfg, a) ==
    LET maxFileSize == Nullish(Get(Server(cfg), "maxFileSize"),
                               Num(DEFAULT_MAX_FILE_SIZE))
    IN  Use(a, [mw |-> "graphqlUpload", path |-> Root, maxFileSize |-> maxFileSize.num])

\* apolloServer.start(): the call, which returns a promise
CallStart(a) ==
    [a EXCEPT !.apollo.state = "starting", !.apollo.starts = @ + 1,
              !.log = Append(@, "apolloServer.start")]

\* expressServer.use(config.graphql?.path ?? '/api/graphql', json(...),
\*                   expressMiddleware(apolloServer, { context }))
UseGraphql(cfg, a) ==
    Use(a, [mw |-> "graphql",
            path |-> Nullish(Get(Graphql(cfg), "path"), DefaultGraphqlPath).segments,
            bodyParser |-> Get(Graphql(cfg), "bodyParser")])


\* the API route mounted without awaiting apolloServer.start()
FromExtendHttpServerToStart_MountEarly(cfg, a) ==
    UseGraphql(cfg,
      CallStart(
        UseGraphqlUpload(cfg,
          NewApolloServer(cfg,
            UseStatic(cfg,
              CallExtendHttpServer(cfg, a))))))

\* the upload middleware left out of the steps before the start
FromExtendHttpServerToStart_NoUpload(cfg, a) ==
    CallStart(
      NewApolloServer(cfg,
        UseStatic(cfg,
          CallExtendHttpServer(cfg, a))))

\* lines 87-135: everything between the extendExpressApp hook and the await
\* of apolloServer.start(), which runs without a suspension
FromExtendHttpServerToStart(cfg, a) ==
    CallStart(
      UseGraphqlUpload(cfg,
        NewApolloServer(cfg,
          UseStatic(cfg,
            CallExtendHttpServer(cfg, a)))))


\* the health check registered before the CORS layer
FromCreateToHealthCheck_Swapped(cfg) == UseCors(cfg, UseHealthCheck(cfg, NewApp))

\* lines 55-81: the application, the CORS layer and the health check
FromCreateToHealthCheck(cfg) == UseHealthCheck(cfg, UseCors(cfg, NewApp))

-----------------------------------------------------------------------------
(* A request on its way through the stack.  express offers the request to  *)
(* the layers in registration order; a layer mounted on a path is skipped  *)
(* unless the request's path lies under it; a layer either ends the        *)
(* request or passes it on with next().                                    *)

Idle == [state |-> "idle"]

\* the req and res objects express makes for the request on connection c
ReqRes(c) == [req |-> <<"req", c>>, res |-> <<"res", c>>]

\* the request as it enters the stack, while createExpressServer is at `at`
Incoming(r, at) ==
    [state |-> "inflight", request |-> r, arrivedAt |-> at, idx |-> 1,
     pair |-> ReqRes(1), contextCalls |-> <<>>, context |-> Undefined,
     visited |-> <<>>, error |-> Undefined,
     cors |-> Undefined, uploaded |-> FALSE, answeredBy |-> "", status |-> 0,
     body |-> Undefined, contentType |-> "", engine |-> "",
     formatterInput |-> Undefined, now |-> 0, fileError |-> 0]

\* a layer mounted on `mount` sees the paths that start with it, segment by segment
Matches(mount, path) ==
    /\ Len(mount) <= Len(path)
    /\ \A i \in 1..Len(mount) : mount[i] = path[i]

Next1(q) == [q EXCEPT !.idx = @ + 1]

Enter(q, layer) == [q EXCEPT !.visited = Append(@, layer.mw)]

End(q, by, status, body) ==
    [q EXCEPT !.state = "done", !.answeredBy = by, !.status = status, !.body = body]

\* the headers the cors package writes for the policy it was given
CorsHeaders(corsConfig) ==
    Obj([allowOrigin      |-> Get(Obj(corsConfig), "origin"),
         allowCredentials |-> Get(Obj(corsConfig), "credentials")])

\* cors(corsConfig): write the headers; answer a preflight, else next()
CorsHandle(q, layer) ==
    LET h == [q EXCEPT !.cors = CorsHeaders(layer.corsConfig)] IN
    IF q.request.method = "OPTIONS"
       /\ ~Truthy(Get(Obj(layer.corsConfig), "preflightContinue"))
    THEN End(h, "cors", 204, Undefined)
    ELSE Next1(h)

\* the payload of lines 76-79, Date.now() reading `now`
DefaultHealth(now) == Obj([status |-> Str("pass"), timestamp |-> Num(now)])

\* a health check handler that passes the request on instead of answering
HealthCheckHandle_FallsThrough(q, layer, now) == Next1(q)

\* a health check handler that always sends the default payload
HealthCheckHandle_DefaultOnly(q, layer, now) ==
    End(q, "healthCheck", 200, DefaultHealth(now))

\* a health check handler that catches what the producer throws and answers
\* with a JSON body of its own
HealthCheckHandle_CatchesThrow(q, layer, now) ==
    LET data == Get(layer.healthCheck, "data") IN
    IF data.type = "function"
    THEN IF data.fn = "throws"
         THEN End(q, "healthCheck", 500, Obj([status |-> Str("fail")]))
         ELSE End(q, "healthCheck", 200, Call(data, Undefined))
    ELSE IF Truthy(data)
         THEN End(q, "healthCheck", 200, data)
         ELSE End(q, "healthCheck", 200, DefaultHealth(now))

\* the handler of lines 72-80; a producer that throws leaves the handler with
\* the fault, which express hands to its final handler
HealthCheckHandle(q, layer, now) ==
    LET data == Get(layer.healthCheck, "data") IN
    IF data.type = "function"
    THEN IF data.fn = "throws"
         THEN End(q, "finalhandler", 500, Undefined)
         ELSE End(q, "healthCheck", 200, Call(data, Undefined))
    ELSE IF Truthy(data)
         THEN End(q, "healthCheck", 200, data)
         ELSE End(q, "healthCheck", 200, DefaultHealth(now))

\* a middleware the extendExpressApp hook registered: it answers or passes on
ExtensionHandle(q, layer, answers) ==
    IF answers THEN End(q, "extension", 200, Undefined) ELSE Next1(q)

\* the Content-Type express.static derives from the extension of the file
\* when setHeaders has not set one
MimeType(path) ==
    CASE path[Len(path)] = "a.png" -> "image/png"
      [] OTHER                     -> "application/octet-stream"

\* a static mount whose setHeaders sets nothing
StaticHandle_NeverForces(q, layer, found) ==
    IF q.request.method = "GET" /\ found
    THEN [End(q, "static", 200, layer.storagePath) EXCEPT
            !.contentType = MimeType(q.request.path)]
    ELSE Next1(q)

\* express.static: a GET of a file that exists is answered, through setHeaders;
\* everything else falls through to next()
StaticHandle(q, layer, found) ==
    IF q.request.method = "GET" /\ found
    THEN [End(q, "static", 200, layer.storagePath) EXCEPT
            !.contentType = IF layer.type = Str("file")
                            THEN "application/octet-stream"
                            ELSE MimeType(q.request.path)]
    ELSE Next1(q)

\* an upload middleware that ends a request whose file is larger than
\* maxFileSize with a 413 instead of passing it on
GraphqlUploadHandle_Rejects(q, layer) ==
    IF ~q.request.multipart THEN Next1(q)
    ELSE IF q.request.size > layer.maxFileSize
         THEN End([q EXCEPT !.uploaded = TRUE], "finalhandler", 413, Undefined)
         ELSE Next1([q EXCEPT !.uploaded = TRUE])

\* graphqlUploadExpress: a multipart request is decoded and passed on with
\* next() as soon as its operations and map fields are read, its files being
\* streamed behind; a file larger than maxFileSize is cut at maxFileSize and
\* its stream fails with a 413 when it is read; any other request passes
\* untouched
GraphqlUploadHandle(q, layer) ==
    IF ~q.request.multipart THEN Next1(q)
    ELSE Next1([q EXCEPT !.uploaded = TRUE,
                         !.fileError = IF q.request.size > layer.maxFileSize
                                       THEN 413 ELSE 0])

\* context.withRequest(req, res): a context of its own for the pair
withRequest(rq, rs) == [type |-> "context", req |-> rq, res |-> rs]

\* context: async ({ req, res }) => await context.withRequest(req, res)
ContextOf(arg) == withRequest(arg.req, arg.res)

\* an API route whose context function hands every request the one context
\* createExpressServer was called with
GraphqlHandle_SharedContext(q, layer, error) ==
    LET e == [q EXCEPT !.engine = apolloServer.state, !.error = error,
                       !.context = [type |-> "context"]] IN
    IF error.type = "undefined"
    THEN End(e, "graphql", 200, Obj([data |-> Str("data")]))
    ELSE End([e EXCEPT !.formatterInput =
                         CustomFormatErrorInput(apolloServer.options, error)],
             "graphql", 200, EngineFormatError(apolloServer.options, error))

\* json(bodyParser), then expressMiddleware(apolloServer): the server calls
\* the context function with the req and res of the request and executes the
\* operation with the context it returns; an error it reports goes through
\* the formatError it was given
GraphqlHandle(q, layer, error) ==
    LET e == [q EXCEPT !.engine = apolloServer.state, !.error = error,
                       !.contextCalls = Append(@, q.pair),
                       !.context = ContextOf(q.pair)] IN
    IF error.type = "undefined"
    THEN End(e, "graphql", 200, Obj([data |-> Str("data")]))
    ELSE End([e EXCEPT !.formatterInput =
                         CustomFormatErrorInput(apolloServer.options, error)],
             "graphql", 200, EngineFormatError(apolloServer.options, error))

-----------------------------------------------------------------------------
(* The inputs: configurations, requests and the errors a request can       *)
(* raise in the Apollo server.                                             *)

MaxStorage == 2

\* the readings of Date.now() run from 1 to MaxTime
MaxTime == 2

\* the values of config.server.maxFileSize run from 0 to MaxFileSize
MaxFileSize == 1

\* the connections open at the same time
MaxConnections == 2

\* an object that has the key k with one of the values, or lacks the key
Opt(k, values) == {<<>>} \cup {k :> v : v \in values}

SeqsUpTo(S, n) == UNION {[1..m -> S] : m \in 0..n}

CorsObject == Obj([origin |-> Str("https://a.example"), credentials |-> Bool(FALSE)])

CorsChoices == {Bool(FALSE), Bool(TRUE), CorsObject}

HealthCheckChoices ==
    {Bool(TRUE),
     Obj([path |-> Path(<<"files">>), data |-> Fn("producer")]),
     Obj([path |-> Path(<<"files">>), data |-> Fn("throws")])}

LocalFiles ==
    Obj([kind |-> Str("local"), type |-> Str("file"),
         storagePath |-> Str("public/files"),
         serverRoute |-> Obj([path |-> Path(<<"files">>)])])

LocalImages ==
    Obj([kind |-> Str("local"), type |-> Str("image"),
         storagePath |-> Str("public/images"),
         serverRoute |-> Obj([path |-> Path(<<"images">>)])])

LocalUnrouted ==
    Obj([kind |-> Str("local"), type |-> Str("file"),
         storagePath |-> Str("private/files")])

S3Files ==
    Obj([kind |-> Str("s3"), type |-> Str("file"),
         storagePath |-> Str("bucket"),
         serverRoute |-> Obj([path |-> Path(<<"files">>)])])

StorageEntries == {LocalFiles, LocalImages, LocalUnrouted, S3Files}

\* config.storage as the sequence Object.values gives, or undefined
StorageChoices == {Undefined} \cup {Arr(s) : s \in SeqsUpTo(StorageEntries, MaxStorage)}

ServerChoices ==
    {Obj(c @@ h @@ e @@ x) :
        c \in Opt("cors", CorsChoices),
        h \in Opt("healthCheck", HealthCheckChoices),
        e \in Opt("extendExpressApp", {Fn("use")}),
        x \in Opt("extendHttpServer", {Fn("extendHttpServer")})}

\* a server with every optional step, its health check on the path /files
FullServer ==
    Obj([cors |-> Bool(TRUE),
         healthCheck |-> Obj([path |-> Path(<<"files">>), data |-> Fn("producer")]),
         extendExpressApp |-> Fn("use"),
         extendHttpServer |-> Fn("extendHttpServer")])

\* the configurations of the pipeline: every server option with no storage
\* and with one local storage; every storage with no server option and with
\* all of them, on the default and on a custom API path
PipelineConfigs ==
    {Obj([server |-> s, storage |-> st, graphql |-> Undefined]) :
        s \in ServerChoices, st \in {Undefined, Arr(<<LocalFiles>>)}}
    \cup
    {Obj([server |-> s, storage |-> st, graphql |-> g]) :
        s \in {Undefined, FullServer}, st \in StorageChoices,
        g \in {Undefined, Obj([path |-> Path(<<"gql">>)])}}

Methods == {"GET", "POST", "OPTIONS"}

\* the paths requests are made to: the API mount path of the configuration,
\* a file under /files and one under /images, the default health check path,
\* and a path nothing owns
RequestPaths(cfg) ==
    {Nullish(Get(Graphql(cfg), "path"), DefaultGraphqlPath).segments,
     <<"files", "a.png">>, <<"images", "a.png">>, <<"_healthcheck">>, <<"other">>}

Requests(cfg) ==
    {[method |-> m, path |-> p, multipart |-> mp, size |-> IF mp THEN 1 ELSE 0] :
        m \in Methods, p \in RequestPaths(cfg), mp \in BOOLEAN}

\* only a POST carries a multipart body
WellFormed(r) == r.multipart => r.method = "POST"

Errors ==
    {Obj([message |-> Str("boom")]),
     Obj([message |-> Str("boom"), extensions |-> Obj([code |-> Str("X")])]),
     Obj([message |-> Str("boom"),
          locations |-> Arr(<<"line 1, column 2">>), path |-> Arr(<<"field">>),
          extensions |-> Obj([code |-> Str("X"), debug |-> Str("d"),
                              exception |-> Str("e")])]),
     Obj([message |-> Str("boom"), extensions |-> Obj([debug |-> Str("d")])])}

-----------------------------------------------------------------------------
(* createExpressServer as a process, and the requests around it.           *)

Install(a) ==
    /\ expressServer' = a.stack
    /\ apolloServer' = a.apollo
    /\ log' = a.log

Current == [stack |-> expressServer, apollo |-> apolloServer, log |-> log]

InitOf(configs, envs) ==
    /\ config \in configs
    /\ NODE_ENV \in envs
    /\ pc = "init"
    /\ expressServer = <<>>
    /\ apolloServer = NoApollo
    /\ log = <<>>
    /\ req = Idle

ApolloConfigChoices ==
    {Obj([introspection |-> Bool(FALSE)]),
     Obj([formatError |-> Fn("identity")]),
     Obj([formatError |-> Fn("mask"), plugins |-> Arr(<<"userPlugin", "otherPlugin">>)]),
     Obj([includeStacktraceInErrorResponses |-> Bool(TRUE),
          schema |-> Str("userSchema"), csrfPrevention |-> Bool(TRUE)])}

GraphqlChoices ==
    {Obj(d @@ p @@ a) :
        d \in Opt("debug", {Bool(TRUE), Bool(FALSE)}),
        p \in Opt("playground", {Bool(TRUE), Bool(FALSE), Str("apollo")}),
        a \in Opt("apolloConfig", ApolloConfigChoices)}

\* the configurations of the Apollo server: every graphql option, with and
\* without an extendExpressApp hook
GraphqlConfigs ==
    {Obj([server |-> s, storage |-> Undefined, graphql |-> g]) :
        s \in {Undefined, Obj([extendExpressApp |-> Fn("use")])},
        g \in GraphqlChoices}

InitGraphql == InitOf(GraphqlConfigs, {"production", "development"})

\* the pipeline does not read NODE_ENV: one value of it is enough here
Init == InitOf(PipelineConfigs, {"production"})

StaticHealth == Obj([status |-> Str("ok"), version |-> Num(3)])

\* every shape of config.server.healthCheck
AllHealthCheckChoices ==
    {Bool(FALSE), Bool(TRUE), Obj(<<>>),
     Obj([path |-> Path(<<"files">>)]),
     Obj([data |-> StaticHealth]),
     Obj([data |-> Fn("producer")]),
     Obj([path |-> Path(<<"files">>), data |-> Fn("throws")]),
     Obj([data |-> Fn("throws")])}

\* the configurations of the health check: every shape of it or none, with
\* and without an extendExpressApp hook and a storage served on /files
HealthConfigs ==
    {Obj([server |-> Obj(h @@ e), storage |-> st, graphql |-> Undefined]) :
        h \in Opt("healthCheck", AllHealthCheckChoices),
        e \in Opt("extendExpressApp", {Fn("use")}),
        st \in {Undefined, Arr(<<LocalFiles>>)}}

InitHealth == InitOf(HealthConfigs, {"production"})

\* an assembly that awaits at the place of the extendExpressApp hook whether
\* or not there is one
Assemble_AlwaysAwaits ==
    /\ pc = "init"
    /\ LET a == FromCreateToHealthCheck(config) IN
       IF Truthy(Get(Server(config), "extendExpressApp"))
       THEN Install(CallExtendExpressApp(config, a))
       ELSE Install(a)
    /\ pc' = "awaitExtend"
    /\ UNCHANGED <<config, NODE_ENV, req>>

\* the call of createExpressServer, up to its first await: the await of the
\* extendExpressApp hook when there is one, else that of apolloServer.start()
Assemble ==
    /\ pc = "init"
    /\ LET a == FromCreateToHealthCheck(config) IN
       IF Truthy(Get(Server(config), "extendExpressApp"))
       THEN /\ Install(CallExtendExpressApp(config, a))
            /\ pc' = "awaitExtend"
       ELSE /\ Install(FromExtendHttpServerToStart(config, a))
            /\ pc' = "awaitStart"
    /\ UNCHANGED <<config, NODE_ENV, req>>

\* the promise of the extendExpressApp hook resolves: on to the next await
ExtendResolved ==
    /\ pc = "awaitExtend"
    /\ Install(FromExtendHttpServerToStart(config, Current))
    /\ pc' = "awaitStart"
    /\ UNCHANGED <<config, NODE_ENV, req>>

\* a rejection of the extendExpressApp hook that surfaces only after the
\* extendHttpServer hook has been called
ExtendRejected_AfterHttpServerHook ==
    /\ pc = "awaitExtend"
    /\ Install(CallExtendHttpServer(config, Current))
    /\ pc' = "rejected"
    /\ UNCHANGED <<config, NODE_ENV, req>>

\* the promise of the extendExpressApp hook rejects: createExpressServer rejects
ExtendRejected ==
    /\ pc = "awaitExtend"
    /\ pc' = "rejected"
    /\ UNCHANGED <<config, NODE_ENV, expressServer, apolloServer, log, req>>

\* lines 136-146, once apolloServer.start() has resolved
AfterStart(cfg, a) ==
    LET r == UseGraphql(cfg, [a EXCEPT !.apollo.state = "started"]) IN
    [r EXCEPT !.log = Append(@, "return")]

StartResolved ==
    /\ pc = "awaitStart"
    /\ Install(AfterStart(config, Current))
    /\ pc' = "returned"
    /\ UNCHANGED <<config, NODE_ENV, req>>


\* a failed start swallowed: the route is mounted and the server returned
StartRejected_Swallowed ==
    /\ pc = "awaitStart"
    /\ Install(UseGraphql(config, [Current EXCEPT !.apollo.state = "failed"]))
    /\ pc' = "returned"
    /\ UNCHANGED <<config, NODE_ENV, req>>

\* apolloServer.start() rejects: the await throws, createExpressServer rejects
StartRejected ==
    /\ pc = "awaitStart"
    /\ apolloServer' = [apolloServer EXCEPT !.state = "failed"]
    /\ pc' = "rejected"
    /\ UNCHANGED <<config, NODE_ENV, expressServer, log, req>>

\* createExpressServer is suspended in an await, or over: only then does the
\* event loop run anything else
Suspended == pc \in {"awaitExtend", "awaitStart", "returned", "rejected"}

\* a request comes in
Arrive ==
    /\ Suspended
    /\ req.state = "idle"
    /\ \E r \in Requests(config) : WellFormed(r) /\ req' = Incoming(r, pc)
    /\ UNCHANGED <<config, NODE_ENV, pc, expressServer, apolloServer, log>>

\* what the layer does with the request; `choice` is what an extension
\* middleware decides or whether the file exists, `error` what the Apollo
\* server reports, `now` what Date.now() reads while the layer runs
Handle(q, layer, choice, error, now) ==
    LET e == [Enter(q, layer) EXCEPT !.now = now] IN
    CASE layer.mw = "cors"          -> CorsHandle(e, layer)
      [] layer.mw = "healthCheck"   -> HealthCheckHandle(e, layer, now)
      [] layer.mw = "extension"     -> ExtensionHandle(e, layer, choice)
      [] layer.mw = "static"        -> StaticHandle(e, layer, choice)
      [] layer.mw = "graphqlUpload" -> GraphqlUploadHandle(e, layer)
      [] layer.mw = "graphql"       -> GraphqlHandle(e, layer, error)

\* the outcomes open to a layer: those of its own decision
Choices(layer) == IF layer.mw \in {"extension", "static"} THEN BOOLEAN ELSE {FALSE}
Outcomes(layer) == IF layer.mw = "graphql" THEN {Undefined} \cup Errors ELSE {Undefined}

\* the readings of the clock open to a layer: only the health check handler,
\* when it sends the default payload, reads it
Clock(layer) ==
    IF layer.mw = "healthCheck" /\ ~Truthy(Get(layer.healthCheck, "data"))
    THEN 1..MaxTime ELSE {0}

\* what becomes of the request q when it is offered to the next layer of the
\* stack as it is now; past the last layer express answers 404
Offers(q) ==
    IF q.idx > Len(expressServer)
    THEN {End(q, "finalhandler", 404, Undefined)}
    ELSE LET layer == expressServer[q.idx] IN
         IF ~Matches(layer.path, q.request.path)
         THEN {Next1(q)}
         ELSE {Handle(q, layer, choice, error, now) :
                 choice \in Choices(layer), error \in Outcomes(layer),
                 now \in Clock(layer)}

\* express offers the request to the next layer
Step ==
    /\ Suspended
    /\ req.state = "inflight"
    /\ req' \in Offers(req)
    /\ UNCHANGED <<config, NODE_ENV, pc, expressServer, apolloServer, log>>

\* the response has been sent: the request is over
Finish ==
    /\ req.state = "done"
    /\ req' = Idle
    /\ UNCHANGED <<config, NODE_ENV, pc, expressServer, apolloServer, log>>

Next ==
    \/ Assemble
    \/ ExtendResolved
    \/ ExtendRejected
    \/ StartResolved
    \/ StartRejected
    \/ Arrive
    \/ Step
    \/ Finish

Spec == Init /\ [][Next]_vars

SpecGraphql == InitGraphql /\ [][Next]_vars

SpecHealth == InitHealth /\ [][Next]_vars

\* the configurations of the upload ceiling: maxFileSize unset or set, with
\* and without an extendExpressApp hook, on the default and a custom API path
UploadConfigs ==
    {Obj([server |-> Obj(m @@ e), storage |-> Undefined, graphql |-> g]) :
        m \in Opt("maxFileSize", {Num(n) : n \in 0..MaxFileSize}),
        e \in Opt("extendExpressApp", {Fn("use")}),
        g \in {Undefined, Obj([path |-> Path(<<"gql">>)])}}

\* the sizes of the uploaded file: around the configured ceilings and
\* around the default one
FileSizes ==
    0..(MaxFileSize + 1) \cup {DEFAULT_MAX_FILE_SIZE, DEFAULT_MAX_FILE_SIZE + 1}

\* the uploads: a multipart POST to the API path or to another path, with a
\* file of one of the sizes; and a POST to the API path that is no upload
Uploads(cfg) ==
    {[method |-> "POST", path |-> p, multipart |-> TRUE, size |-> n] :
        p \in {Nullish(Get(Graphql(cfg), "path"), DefaultGraphqlPath).segments,
               <<"other">>},
        n \in FileSizes}
    \cup
    {[method |-> "POST",
      path |-> Nullish(Get(Graphql(cfg), "path"), DefaultGraphqlPath).segments,
      multipart |-> FALSE, size |-> 0]}

InitUpload == InitOf(UploadConfigs, {"production"})

\* an upload comes in
ArriveUpload ==
    /\ Suspended
    /\ req.state = "idle"
    /\ \E r \in Uploads(config) : req' = Incoming(r, pc)
    /\ UNCHANGED <<config, NODE_ENV, pc, expressServer, apolloServer, log>>

NextUpload ==
    \/ Assemble
    \/ ExtendResolved
    \/ ExtendRejected
    \/ StartResolved
    \/ StartRejected
    \/ ArriveUpload
    \/ Step
    \/ Finish

SpecUpload == InitUpload /\ [][NextUpload]_vars

\* with several connections req holds one request for each of them
Connections == 1..MaxConnections

\* the configurations of the concurrent requests: with and without an
\* extendExpressApp hook
ContextConfigs ==
    {Obj([server |-> Obj(e), storage |-> Undefined, graphql |-> Undefined]) :
        e \in Opt("extendExpressApp", {Fn("use")})}

\* the requests made at the same time: operations to the API path, one of
\* them an upload
ApiRequests ==
    {[method |-> "POST", path |-> DefaultGraphqlPath.segments,
      multipart |-> mp, size |-> IF mp THEN 1 ELSE 0] : mp \in BOOLEAN}

InitContext ==
    /\ config \in ContextConfigs
    /\ NODE_ENV = "production"
    /\ pc = "init"
    /\ expressServer = <<>>
    /\ apolloServer = NoApollo
    /\ log = <<>>
    /\ req = [c \in Connections |-> Idle]

\* a request comes in on the connection c
ArriveOn(c) ==
    /\ Suspended
    /\ req[c].state = "idle"
    /\ \E r \in ApiRequests :
          req' = [req EXCEPT ![c] = [Incoming(r, pc) EXCEPT !.pair = ReqRes(c)]]
    /\ UNCHANGED <<config, NODE_ENV, pc, expressServer, apolloServer, log>>

\* express offers the request of the connection c to the next layer
StepOn(c) ==
    /\ Suspended
    /\ req[c].state = "inflight"
    /\ \E q \in Offers(req[c]) : req' = [req EXCEPT ![c] = q]
    /\ UNCHANGED <<config, NODE_ENV, pc, expressServer, apolloServer, log>>

\* the response on the connection c has been sent
FinishOn(c) ==
    /\ req[c].state = "done"
    /\ req' = [req EXCEPT ![c] = Idle]
    /\ UNCHANGED <<config, NODE_ENV, pc, expressServer, apolloServer, log>>

NextContext ==
    \/ Assemble
    \/ ExtendResolved
    \/ ExtendRejected
    \/ StartResolved
    \/ StartRejected
    \/ \E c \in Connections : ArriveOn(c)
    \/ \E c \in Connections : StepOn(c)
    \/ \E c \in Connections : FinishOn(c)

SpecContext == InitContext /\ [][NextContext]_vars

-----------------------------------------------------------------------------
(* Vocabulary of the properties.                                           *)

Range(seq) == {seq[i] : i \in 1..Len(seq)}

\* the places of the layers of one kind in the stack
LayersOf(mw) == {i \in 1..Len(expressServer) : expressServer[i].mw = mw}

HasLayer(mw) == LayersOf(mw) # {}

\* the place of the first occurrence of a step in the log, 0 when it is absent
Pos(step) ==
    IF step \in Range(log)
    THEN CHOOSE i \in 1..Len(log) : log[i] = step /\ \A j \in 1..(i - 1) : log[j] # step
    ELSE 0

Count(step) == Cardinality({i \in 1..Len(log) : log[i] = step})

ApiPath == Nullish(Get(Graphql(config), "path"), DefaultGraphqlPath).segments

\* the request in req has been through the layer at place i
\* (a request that got the 404 of express stopped past the last layer)
Passed(i) ==
    \/ req.idx > i
    \/ req.state = "done" /\ req.idx = i /\ req.status # 404

-----------------------------------------------------------------------------
(* The pipeline: properties checked under Spec.                            *)

\* C1: the API route is mounted only once apolloServer.start() has resolved,
\* start() is called exactly once, and no request, however it interleaves
\* with the assembly, is handed to a server that has not finished starting.
C1_MountedAfterStart ==
    /\ HasLayer("graphql") =>
          /\ apolloServer.state = "started"
          /\ 0 < Pos("apolloServer.start")
          /\ Pos("apolloServer.start") < Pos("graphql")
    /\ apolloServer.starts = Count("apolloServer.start")
    /\ apolloServer.starts <= 1
    /\ apolloServer.state \in {"starting", "started", "failed"} => apolloServer.starts = 1
    /\ req.state # "idle" => req.engine \in {"", "started"}

\* C1 witness: a request that came in while the server was starting is
\* answered by the started server.
C1_Witness ==
    /\ req.state = "done"
    /\ req.arrivedAt = "awaitStart"
    /\ req.answeredBy = "graphql"
    /\ req.engine = "started"

\* C2: a failed start rejects the assembly, is not retried, and leaves no
\* route on the API path: no request is answered by the Apollo server.
C2_FailedStartRejects ==
    apolloServer.state = "failed" =>
        /\ pc = "rejected"
        /\ "return" \notin Range(log)
        /\ apolloServer.starts = 1
        /\ ~HasLayer("graphql")
        /\ req.state # "idle" /\ req.arrivedAt = "rejected" =>
              /\ req.answeredBy # "graphql"
              /\ req.engine = ""
              /\ "graphql" \notin Range(req.visited)

\* C2 witness: after a failed start a request to the API path gets the 404
\* of express.
C2_Witness ==
    /\ apolloServer.state = "failed"
    /\ req.state = "done"
    /\ req.arrivedAt = "rejected"
    /\ req.request.path = ApiPath
    /\ req.answeredBy = "finalhandler"
    /\ req.status = 404

\* C3 as stated: the upload middleware is on the API mount path only, so a
\* multipart request to another path is never decoded by it.
C3_UploadOnlyOnApiPath ==
    req.state # "idle" /\ req.uploaded => Matches(ApiPath, req.request.path)

\* C3 amended: the upload middleware is mounted on the whole application,
\* and every multipart request that gets as far as it is decoded by it,
\* whatever its path; no other request is.
C3_UploadOnEveryPath ==
    /\ \A i \in LayersOf("graphqlUpload") : expressServer[i].path = Root
    /\ req.state # "idle" =>
          /\ req.uploaded => req.request.multipart
          /\ \A i \in LayersOf("graphqlUpload") :
                Passed(i) /\ req.request.multipart => req.uploaded

\* C3 witness: a multipart request to a path outside the API mount path has
\* been decoded by the upload middleware.
C3_Witness ==
    /\ req.state = "done"
    /\ req.uploaded
    /\ ~Matches(ApiPath, req.request.path)

\* the rank of an assembly step, or of a layer, in the order of C6
Rank(step) ==
    CASE step = "cors"                -> 1
      [] step = "healthCheck"         -> 2
      [] step = "extendExpressApp"    -> 3
      [] step = "extension"           -> 3
      [] step = "extendHttpServer"    -> 4
      [] step = "static"              -> 5
      [] step = "new ApolloServer"    -> 6
      [] step = "graphqlUpload"       -> 6
      [] step = "apolloServer.start"  -> 6
      [] step = "graphql"             -> 7
      [] step = "return"              -> 8

InOrder(steps) ==
    \A i, j \in 1..Len(steps) :
        i < j => /\ Rank(steps[i]) <= Rank(steps[j])
                 /\ Rank(steps[i]) = Rank(steps[j]) => Rank(steps[i]) \in {5, 6}

\* C6: CORS, health check, extendExpressApp, extendHttpServer and the static
\* mounts are registered in that order, all before the Apollo server is
\* constructed and started; a request meets the layers in that order, then
\* the upload middleware, then the Apollo server.
C6_FixedOrder ==
    /\ InOrder(log)
    /\ InOrder([i \in 1..Len(expressServer) |-> expressServer[i].mw])
    /\ req.state # "idle" => InOrder(req.visited)
    /\ \A i, j \in 1..Len(expressServer) :
          /\ expressServer[i].mw = "graphqlUpload"
          /\ expressServer[j].mw = "graphql"
          => i < j

\* C6 witness: every conditional step has run and a request went through
\* CORS, the extension middleware, the upload middleware and the server.
C6_Witness ==
    /\ pc = "returned"
    /\ {"cors", "healthCheck", "extendExpressApp", "extendHttpServer", "static"}
          \subseteq Range(log)
    /\ req.state = "done"
    /\ req.visited = <<"cors", "extension", "graphqlUpload", "graphql">>

\* C7 as stated: the upload middleware is registered only after the start of
\* the Apollo server has completed, so a failed start leaves none.
C7_UploadAfterStart ==
    HasLayer("graphqlUpload") => apolloServer.state = "started"

\* C7 amended: the upload middleware is registered after the Apollo server is
\* constructed and before start() is called, hence before the API route; a
\* failed start leaves the upload middleware registered and no API route.
C7_UploadBeforeStart ==
    /\ apolloServer.starts > 0 =>
          /\ HasLayer("graphqlUpload")
          /\ Pos("new ApolloServer") < Pos("graphqlUpload")
          /\ Pos("graphqlUpload") < Pos("apolloServer.start")
    /\ HasLayer("graphqlUpload") => apolloServer.state # "none"
    /\ HasLayer("graphql") => Pos("graphqlUpload") < Pos("graphql")
    /\ apolloServer.state = "failed" =>
          HasLayer("graphqlUpload") /\ ~HasLayer("graphql")

\* C7 witness: after a failed start a multipart request is still decoded by
\* the upload middleware.
C7_Witness ==
    /\ apolloServer.state = "failed"
    /\ req.state = "done"
    /\ req.arrivedAt = "rejected"
    /\ req.uploaded

\* the health check layer shares its path with a static mount
Collision ==
    \E i \in LayersOf("healthCheck"), j \in LayersOf("static") :
        expressServer[i].path = expressServer[j].path

HealthCheckMount == expressServer[CHOOSE i \in LayersOf("healthCheck") : TRUE].path

\* C9 as stated: with a health check on the path of a static mount, every
\* request to that path is answered by the health check handler and never
\* reaches the static handler.
C9_HealthCheckAnswers ==
    /\ Collision
    /\ req.state = "done"
    /\ Matches(HealthCheckMount, req.request.path)
    => /\ req.answeredBy = "healthCheck"
       /\ "static" \notin Range(req.visited)

\* C9 amended: with a health check on the path of a static mount, every
\* request to that path that reaches the health check layer (the CORS layer
\* answers a preflight before it) ends there, answered by the handler or,
\* when the data producer throws, failed with a 500; none reaches the static
\* handler.
C9_HealthCheckFirst ==
    /\ Collision
    /\ req.state # "idle"
    /\ Matches(HealthCheckMount, req.request.path)
    => /\ "static" \notin Range(req.visited)
       /\ "healthCheck" \in Range(req.visited) =>
             /\ req.state = "done"
             /\ \/ req.answeredBy = "healthCheck" /\ req.status = 200
                \/ /\ req.answeredBy = "finalhandler" /\ req.status = 500
                   /\ Get(Get(Server(config), "healthCheck"), "data") = Fn("throws")
       /\ req.state = "done" =>
             \/ "healthCheck" \in Range(req.visited)
             \/ req.answeredBy = "cors" /\ req.request.method = "OPTIONS"

\* C9 witness: a GET of a file under the shared path is answered by the
\* health check handler.
C9_Witness ==
    /\ Collision
    /\ req.state = "done"
    /\ req.request.method = "GET"
    /\ req.request.path = <<"files", "a.png">>
    /\ req.answeredBy = "healthCheck"

\* C10: a CORS layer is registered exactly when server.cors is truthy; no
\* layer, no CORS header on any response; `true` gives the policy
\* {origin: true, credentials: true}, an object is the policy as it is.
C10_CorsPolicy ==
    LET c == Get(Server(config), "cors") IN
    pc # "init" =>
        /\ HasLayer("cors") <=> Truthy(c)
        /\ Cardinality(LayersOf("cors")) <= 1
        /\ \A i \in LayersOf("cors") :
              /\ c.type = "boolean" =>
                    expressServer[i].corsConfig =
                        [origin |-> Bool(TRUE), credentials |-> Bool(TRUE)]
              /\ c.type = "object" => expressServer[i].corsConfig = c.obj
        /\ ~Truthy(c) /\ req.state # "idle" => req.cors = Undefined
        /\ Truthy(c) /\ req.state # "idle" /\ "cors" \in Range(req.visited) =>
              req.cors = CorsHeaders(IF c.type = "boolean"
                                     THEN [origin |-> Bool(TRUE),
                                           credentials |-> Bool(TRUE)]
                                     ELSE c.obj)

\* C10 witness: with an object for server.cors a response carries the
\* headers of that object.
C10_Witness ==
    /\ Get(Server(config), "cors") = CorsObject
    /\ req.state = "done"
    /\ req.cors = Obj([allowOrigin |-> Str("https://a.example"),
                       allowCredentials |-> Bool(FALSE)])

-----------------------------------------------------------------------------
(* The options of the Apollo server and the errors it sends: properties    *)
(* checked under SpecGraphql.                                              *)

\* debug visibility: graphql.debug when it is set, else "not in production"
DebugVisible ==
    LET d == Get(Graphql(config), "debug") IN
    IF d.type = "undefined" THEN ~IsProduction ELSE d.bool

\* the error carries extensions.debug or extensions.exception
HasDebugFields(e) ==
    LET x == Get(e, "extensions") IN
    x.type = "object" /\ {"debug", "exception"} \cap DOMAIN x.obj # {}

\* the request in req ended with an error reported by the Apollo server
ErrorSent ==
    /\ req.state = "done"
    /\ req.answeredBy = "graphql"
    /\ req.error.type # "undefined"

\* C4 as stated: when debug visibility is false the error sent to the client
\* has neither extensions.debug nor extensions.exception, with or without a
\* custom formatError in apolloConfig.
C4_NoDebugFieldsSent ==
    ErrorSent /\ ~DebugVisible => ~HasDebugFields(req.body)

BuiltInKeys == {"formatError", "includeStacktraceInErrorResponses", "schema", "plugins"}

\* the value createExpressServer itself computes for a built-in key
BuiltInValue(k) ==
    CASE k = "formatError" -> FormatErrorOf(Graphql(config))
      [] k = "includeStacktraceInErrorResponses" -> Get(Graphql(config), "debug")
      [] k = "schema"      -> graphQLSchema
      [] k = "plugins"     -> Plugins(config)

\* C5 as stated: the Apollo server gets the built-in value for formatError,
\* includeStacktraceInErrorResponses, schema and plugins even when
\* apolloConfig has the key, and the user's value for every other key.
C5_BuiltInsWin ==
    apolloServer.state # "none" =>
        LET user == SpreadOf(Get(Graphql(config), "apolloConfig")) IN
        /\ \A k \in BuiltInKeys : apolloServer.options[k] = BuiltInValue(k)
        /\ \A k \in DOMAIN user \ BuiltInKeys : apolloServer.options[k] = user[k]

\* C8 as stated: with a custom formatter the redaction runs first, the custom
\* formatter is called last with the redacted error (without the debug
\* fields when debug visibility is false), and what it returns is sent.
C8_CustomFormatterLast ==
    ErrorSent /\ Truthy(CustomFormatError(Graphql(config))) =>
        /\ req.formatterInput = Redact(Graphql(config), req.error)
        /\ ~DebugVisible => ~HasDebugFields(req.formatterInput)
        /\ req.body = Call(CustomFormatError(Graphql(config)), req.formatterInput)

-----------------------------------------------------------------------------
(* The static mounts: properties checked under Spec.                       *)

\* the storage entries a mount is due to, in the order of config.storage
Mountable ==
    IF Get(config, "storage").type = "array"
    THEN SelectSeq(Get(config, "storage").arr,
                   LAMBDA v : /\ Get(v, "kind") = Str("local")
                              /\ Get(v, "serverRoute").type = "object")
    ELSE <<>>

\* the static layers of the stack, in registration order
StaticMounts == SelectSeq(expressServer, LAMBDA l : l.mw = "static")

\* the static loop has run: the Apollo server is constructed right after it
StaticDone == apolloServer.state # "none"

\* C11: once the assembly has passed the storage loop, the static mounts are
\* exactly the storage entries of kind local that have a serverRoute, one
\* mount per entry, on serverRoute.path and rooted at storagePath; before
\* the loop there is none; and a request a static mount answers is served
\* from the storagePath of such an entry whose route covers the request.
C11_StaticMountsAreLocalRouted ==
    /\ ~StaticDone => StaticMounts = <<>>
    /\ StaticDone =>
        /\ Len(StaticMounts) = Len(Mountable)
        /\ \A i \in 1..Len(Mountable) :
              /\ StaticMounts[i].path =
                    Get(Get(Mountable[i], "serverRoute"), "path").segments
              /\ StaticMounts[i].storagePath = Get(Mountable[i], "storagePath")
    /\ req.state = "done" /\ req.answeredBy = "static" =>
        \E i \in 1..Len(Mountable) :
            /\ req.body = Get(Mountable[i], "storagePath")
            /\ Matches(Get(Get(Mountable[i], "serverRoute"), "path").segments,
                       req.request.path)

\* a storage with an s3 entry that has a route and with a routed local one:
\* one mount only, and it has served a file
C11_Witness ==
    /\ pc = "returned"
    /\ Get(config, "storage") = Arr(<<S3Files, LocalImages>>)
    /\ Len(StaticMounts) = 1
    /\ req.state = "done" /\ req.answeredBy = "static"
    /\ req.body = Str("public/images")

\* the layer that ended the request in req
AnsweringLayer == expressServer[req.idx]

\* C12: a file served by the static mount of an entry of type 'file' goes
\* out as application/octet-stream whatever its extension; one served by the
\* mount of an entry of type 'image' keeps the type of its extension.
C12_FileForcesOctetStream ==
    req.state = "done" /\ req.answeredBy = "static" =>
        /\ AnsweringLayer.type = Str("file") =>
              req.contentType = "application/octet-stream"
        /\ AnsweringLayer.type = Str("image") =>
              req.contentType = MimeType(req.request.path)

\* a .png served from a 'file' storage as application/octet-stream
C12_Witness ==
    /\ req.state = "done" /\ req.answeredBy = "static"
    /\ AnsweringLayer.type = Str("file")
    /\ req.request.path = <<"files", "a.png">>
    /\ MimeType(req.request.path) = "image/png"
    /\ req.contentType = "application/octet-stream"

-----------------------------------------------------------------------------
(* The health check: properties checked under SpecHealth.                  *)

\* config.server.healthCheck is true or an object
HealthCheckConfigured ==
    LET h == Get(Server(config), "healthCheck") IN
    h = Bool(TRUE) \/ h.type = "object"

\* the data the health check is configured with, undefined when it has none
HealthCheckData == Get(Get(Server(config), "healthCheck"), "data")

\* C13: the health check route exists exactly when server.healthCheck is
\* true or an object, and once only; the body it answers with is the result
\* of calling the data function with no argument when data is a function,
\* else the static data object as it is when there is one, else the payload
\* {status: 'pass', timestamp: the clock reading at the time of the answer}.
C13_HealthCheckBody ==
    /\ pc # "init" =>
        /\ HasLayer("healthCheck") <=> HealthCheckConfigured
        /\ Cardinality(LayersOf("healthCheck")) <= 1
    /\ req.state = "done" /\ req.answeredBy = "healthCheck" =>
        /\ HealthCheckConfigured
        /\ req.status = 200
        /\ req.body =
             CASE HealthCheckData.type = "function" ->
                    Call(HealthCheckData, Undefined)
               [] HealthCheckData.type = "object" -> HealthCheckData
               [] OTHER ->
                    Obj([status |-> Str("pass"), timestamp |-> Num(req.now)])

\* the default body, sent at the latest of the clock readings
C13_Witness ==
    /\ Get(Server(config), "healthCheck") = Bool(TRUE)
    /\ req.state = "done" /\ req.answeredBy = "healthCheck"
    /\ req.now = MaxTime
    /\ req.body = Obj([status |-> Str("pass"), timestamp |-> Num(MaxTime)])

\* the health check handler has run for the request in req, with a producer
\* that throws
ProducerThrew ==
    /\ req.state = "done"
    /\ req.visited # <<>>
    /\ req.visited[Len(req.visited)] = "healthCheck"
    /\ HealthCheckData = Fn("throws")

\* the application, the Apollo server and the place of the assembly
Pipeline == <<expressServer, apolloServer, log, pc, config>>

\* C19: a producer that throws is not caught by the health check handler:
\* the request gets no body from the handler, the fault goes to express,
\* which ends that request with a 500; the fault stays with the request:
\* no step of a request changes the pipeline, the next thing that happens
\* to the failed request is that it is over with the pipeline as it was,
\* and the application takes up the next request.
C19_FaultConfinedToRequest ==
    /\ [](ProducerThrew =>
            /\ req.answeredBy = "finalhandler"
            /\ req.status = 500
            /\ req.body = Undefined
            /\ ENABLED Finish)
    /\ [](req.state = "idle" /\ pc \in {"awaitExtend", "awaitStart", "returned", "rejected"}
            => ENABLED Arrive)
    /\ [][req' # req => UNCHANGED Pipeline]_vars
    /\ [][ProducerThrew /\ req' # req => req' = Idle]_vars

\* a request to the health check of a returned server was ended with a 500
\* by express, the producer having thrown
C19_Witness ==
    /\ ProducerThrew
    /\ pc = "returned"
    /\ req.request.path = <<"_healthcheck">>
    /\ req.status = 500 /\ req.answeredBy = "finalhandler"

-----------------------------------------------------------------------------
(* The suspension points of the assembly: properties checked under Spec.   *)

HookConfigured == Truthy(Get(Server(config), "extendExpressApp"))

Last(seq) == seq[Len(seq)]

\* C14 as stated: the assembly is suspended only in the start of the Apollo
\* server, so that a request is taken up only while the server is starting
\* or once createExpressServer is over.
C14_OneSuspensionPoint ==
    /\ pc \in {"init", "awaitStart", "returned", "rejected"}
    /\ req.state # "idle" => req.arrivedAt \in {"awaitStart", "returned", "rejected"}

\* C14, amended: the assembly is suspended in at most two places, the await
\* of the extendExpressApp hook, only when that hook is configured and right
\* after it was called, and the await of apolloServer.start(), right after
\* start was called; every other step, the extendHttpServer hook included,
\* runs without suspension, so a request is taken up only at one of the two
\* awaits or once createExpressServer is over.
C14_TwoSuspensionPoints ==
    /\ pc \in {"init", "awaitExtend", "awaitStart", "returned", "rejected"}
    /\ pc = "init" => log = <<>> /\ req.state = "idle"
    /\ pc = "awaitExtend" => HookConfigured /\ Last(log) = "extendExpressApp"
    /\ pc = "awaitStart" => Last(log) = "apolloServer.start"
    /\ pc = "returned" => Last(log) = "return"
    /\ ~HookConfigured => Pos("extendExpressApp") = 0
    /\ req.state # "idle" =>
        /\ req.arrivedAt \in {"awaitExtend", "awaitStart", "returned", "rejected"}
        /\ req.arrivedAt = "awaitExtend" => HookConfigured

\* a request taken up, and answered by the health check, while the
\* extendExpressApp hook is awaited and nothing after it is registered
C14_Witness ==
    /\ pc = "awaitExtend"
    /\ req.state = "done" /\ req.arrivedAt = "awaitExtend"
    /\ req.answeredBy = "healthCheck"
    /\ ~HasLayer("graphqlUpload")

\* createExpressServer has rejected and start() was never called: it is the
\* extendExpressApp hook that rejected
HookRejected == pc = "rejected" /\ Pos("apolloServer.start") = 0

\* C20: when the extendExpressApp hook rejects, createExpressServer rejects
\* there: the extendHttpServer hook is not called, no static mount, upload
\* middleware or API route is registered, the Apollo server is neither
\* constructed nor started, and the cors and health check layers registered
\* before the hook are still on the application.
C20_HookRejectionStopsAssembly ==
    HookRejected =>
        /\ HookConfigured
        /\ Pos("extendHttpServer") = 0
        /\ ~HasLayer("static") /\ ~HasLayer("graphqlUpload") /\ ~HasLayer("graphql")
        /\ Pos("new ApolloServer") = 0
        /\ apolloServer = NoApollo
        /\ Cardinality(LayersOf("cors")) =
             IF Truthy(Get(Server(config), "cors")) THEN 1 ELSE 0
        /\ Cardinality(LayersOf("healthCheck")) =
             IF Truthy(Get(Server(config), "healthCheck")) THEN 1 ELSE 0
        /\ \A i \in LayersOf("cors") \cup LayersOf("healthCheck") :
              \A j \in LayersOf("extension") : i < j
        /\ req.state # "idle" =>
              req.answeredBy \in {"", "cors", "healthCheck", "extension", "finalhandler"}

\* the hook of a configuration with every option has rejected, and the
\* health check still answers a request that came afterwards
C20_Witness ==
    /\ HookRejected
    /\ Truthy(Get(Server(config), "extendHttpServer"))
    /\ Truthy(Get(config, "storage"))
    /\ HasLayer("cors") /\ HasLayer("healthCheck")
    /\ req.state = "done" /\ req.arrivedAt = "rejected"
    /\ req.answeredBy = "healthCheck"

-----------------------------------------------------------------------------
(* The plugins and the built-in formatter: checked under SpecGraphql.      *)

\* config.graphql.playground and config.graphql.apolloConfig.plugins as given
Playground == Get(Graphql(config), "playground")
UserPlugins == Get(Get(Graphql(config), "apolloConfig"), "plugins")

\* C15: the plugins the Apollo server is constructed with are, for playground
\* 'apollo', apolloConfig.plugins itself; otherwise one landing page plugin
\* followed by the user's plugins in their order, the plugin being the
\* interactive page when playground is true, the disabled page when it is
\* false and, when it is unset, the interactive page exactly when NODE_ENV
\* is not production.
C15_PluginList ==
    apolloServer.state # "none" =>
        LET plugins  == apolloServer.options["plugins"]
            resolved == IF Playground.type = "undefined"
                        THEN NODE_ENV # "production"
                        ELSE Playground = Bool(TRUE)
            page     == IF resolved THEN "ApolloServerPluginLandingPageLocalDefault"
                        ELSE "ApolloServerPluginLandingPageDisabled"
            user     == IF UserPlugins.type = "array" THEN UserPlugins.arr ELSE <<>>
        IN  IF Playground = Str("apollo")
            THEN plugins = UserPlugins
            ELSE /\ plugins.type = "array"
                 /\ Len(plugins.arr) = 1 + Len(user)
                 /\ plugins.arr[1] = page
                 /\ \A i \in 1..Len(user) : plugins.arr[i + 1] = user[i]

\* in production, with playground unset and two plugins of the user, the
\* started server has the disabled page in front of the two
C15_Witness ==
    /\ apolloServer.state = "started"
    /\ NODE_ENV = "production"
    /\ Playground = Undefined
    /\ apolloServer.options["plugins"] =
          Arr(<<"ApolloServerPluginLandingPageDisabled", "userPlugin", "otherPlugin">>)

\* r is e with nothing changed but extensions.debug and extensions.exception
\* removed when debug visibility is false and e has extensions; r is e itself
\* otherwise
OnlyRedacted(e, r) ==
    IF ~DebugVisible /\ Get(e, "extensions").type = "object"
    THEN /\ r.type = "object"
         /\ DOMAIN r.obj = DOMAIN e.obj
         /\ \A k \in DOMAIN e.obj \ {"extensions"} : r.obj[k] = e.obj[k]
         /\ LET x == e.obj["extensions"].obj
                y == r.obj["extensions"]
            IN  /\ y.type = "object"
                /\ DOMAIN y.obj = DOMAIN x \ {"debug", "exception"}
                /\ \A k \in DOMAIN y.obj : y.obj[k] = x[k]
    ELSE r = e

NoCustomFormatter == ~Truthy(CustomFormatError(Graphql(config)))

\* C17: the built-in formatter changes nothing but the two redacted fields:
\* with debug visibility false it removes extensions.debug and
\* extensions.exception only, message, locations, path and the other
\* extension keys staying as they were; with debug visibility true, or for
\* an error without extensions, and no custom formatter, what it returns is
\* the error it was given. So it is of every error the formatter can be
\* called with, and of the error a request was answered with.
C17_OnlyRedactedFieldsChange ==
    /\ \A e \in Errors :
          /\ OnlyRedacted(e, Redact(Graphql(config), e))
          /\ NoCustomFormatter => OnlyRedacted(e, formatError(Graphql(config), e))
    /\ ErrorSent /\ NoCustomFormatter => OnlyRedacted(req.error, req.body)

\* an error with locations, path, a code and the two debug fields was sent
\* with debug visibility false: only the two fields are gone
C17_Witness ==
    /\ ErrorSent /\ NoCustomFormatter /\ ~DebugVisible
    /\ HasDebugFields(req.error)
    /\ "locations" \in DOMAIN req.error.obj
    /\ req.body = Obj([req.error.obj EXCEPT
                         !["extensions"] = Obj([code |-> Str("X")])])

-----------------------------------------------------------------------------
(* The upload ceiling: properties checked under SpecUpload.                *)

\* the ceiling the configuration asks for
Ceiling ==
    LET m == Get(Server(config), "maxFileSize") IN
    IF m.type = "number" THEN m.num ELSE 200 * 1024 * 1024

Oversize == req.request.multipart /\ req.request.size > Ceiling

\* the request in req has been through the upload middleware
Decoded == \E i \in LayersOf("graphqlUpload") : Passed(i)

\* a request to the API path that came when the route was mounted and has
\* been through the upload middleware is over
ReachesApiRoute ==
    /\ req.state = "done"
    /\ req.arrivedAt = "returned"
    /\ Matches(ApiPath, req.request.path)
    /\ Decoded

-----------------------------------------------------------------------------
(* The context of concurrent requests: properties checked under            *)
(* SpecContext.                                                            *)

\* the Apollo server has been invoked for the request on connection c
Invoked(c) == req[c].state # "idle" /\ req[c].engine # ""

\* C18: however the requests to the API path interleave, the Apollo server
\* is invoked for a request with the context of exactly one call of the
\* context function, made with the req and res of that request; without an
\* invocation there is no call; and no two requests have the same context
\* or a context made of the req or res of the other.
C18_ContextPerRequest ==
    /\ \A c \in Connections :
          req[c].state # "idle" =>
              IF req[c].engine # ""
              THEN /\ Len(req[c].contextCalls) = 1
                   /\ req[c].contextCalls[1] = [req |-> <<"req", c>>, res |-> <<"res", c>>]
                   /\ req[c].context =
                        [type |-> "context", req |-> <<"req", c>>, res |-> <<"res", c>>]
              ELSE req[c].contextCalls = <<>> /\ req[c].context = Undefined
    /\ \A c, d \in Connections :
          c # d /\ Invoked(c) /\ Invoked(d) =>
              /\ req[c].context # req[d].context
              /\ req[c].context.req # req[d].context.req
              /\ req[c].context.res # req[d].context.res

\* two requests answered by the started server at the same time, one of
\* them taken up while the server was starting
C18_Witness ==
    /\ \A c \in {1, 2} :
          /\ req[c].state = "done"
          /\ req[c].answeredBy = "graphql"
          /\ req[c].engine = "started"
    /\ req[1].arrivedAt = "awaitStart"
    /\ req[2].arrivedAt = "returned"

====
